---- MODULE Spec2Model ----
(***************************************************************************)
(* A model of the header-only library src/include/length/length.hpp:       *)
(* lengths tagged at compile time with one of five units, conversion       *)
(* between units through exact std::ratio scale factors, and the           *)
(* comparison and arithmetic operators built on that conversion.           *)
(*                                                                         *)
(* The magnitude of a Length is a C++ double.  It is modelled bit-exactly  *)
(* as an IEEE-754 binary64 number (53-bit significand, values from 2^-1074 *)
(* to below 2^1024, round to nearest, ties to even, gradual underflow,     *)
(* infinities and NaN).  TLC's integers are 32 bits wide, so significands  *)
(* are kept as little-endian sequences of 15-bit limbs.                    *)
(***************************************************************************)
EXTENDS Integers, Sequences, FiniteSets, TLC

(***************************************************************************)
(* Natural numbers of arbitrary size: little-endian limbs, no high zero    *)
(* limb, zero is the empty sequence.                                       *)
(***************************************************************************)
LimbBits == 15
Base == 2^LimbBits

RECURSIVE BNorm(_)
BNorm(x) ==
    IF x = <<>> THEN x
    ELSE IF x[Len(x)] = 0 THEN BNorm(SubSeq(x, 1, Len(x) - 1))
    ELSE x

RECURSIVE BFromInt(_)
BFromInt(n) == IF n = 0 THEN <<>> ELSE <<n % Base>> \o BFromInt(n \div Base)

BLimb(x, i) == IF i <= Len(x) THEN x[i] ELSE 0

RECURSIVE BAddRec(_, _, _, _)
BAddRec(x, y, i, c) ==
    IF i > Len(x) /\ i > Len(y)
    THEN (IF c = 0 THEN <<>> ELSE <<c>>)
    ELSE LET s == BLimb(x, i) + BLimb(y, i) + c
         IN  <<s % Base>> \o BAddRec(x, y, i + 1, s \div Base)

BAdd(x, y) == BAddRec(x, y, 1, 0)

\* x - y for x >= y
RECURSIVE BSubRec(_, _, _, _)
BSubRec(x, y, i, b) ==
    IF i > Len(x) THEN <<>>
    ELSE LET s == x[i] - BLimb(y, i) - b
         IN  IF s < 0 THEN <<s + Base>> \o BSubRec(x, y, i + 1, 1)
             ELSE <<s>> \o BSubRec(x, y, i + 1, 0)

BSub(x, y) == BNorm(BSubRec(x, y, 1, 0))

\* -1, 0, 1 as x < y, x = y, x > y
RECURSIVE BCmpRec(_, _, _)
BCmpRec(x, y, i) ==
    IF i = 0 THEN 0
    ELSE IF x[i] < y[i] THEN -1
    ELSE IF x[i] > y[i] THEN 1
    ELSE BCmpRec(x, y, i - 1)

BCmp(x, y) ==
    IF Len(x) < Len(y) THEN -1
    ELSE IF Len(x) > Len(y) THEN 1
    ELSE BCmpRec(x, y, Len(x))

\* x * k for 0 <= k < Base
RECURSIVE BMulSmallRec(_, _, _, _)
BMulSmallRec(x, k, i, c) ==
    IF i > Len(x) THEN (IF c = 0 THEN <<>> ELSE <<c>>)
    ELSE LET s == x[i] * k + c
         IN  <<s % Base>> \o BMulSmallRec(x, k, i + 1, s \div Base)

BMulSmall(x, k) == IF k = 0 THEN <<>> ELSE BMulSmallRec(x, k, 1, 0)

BShiftLimbs(x, n) == IF x = <<>> THEN x ELSE [i \in 1..n |-> 0] \o x

RECURSIVE BMul(_, _)
BMul(x, y) ==
    IF y = <<>> \/ x = <<>> THEN <<>>
    ELSE BAdd(BMulSmall(x, Head(y)), BShiftLimbs(BMul(x, Tail(y)), 1))

\* x * 2^n
BShl(x, n) == BShiftLimbs(BMulSmall(x, 2^(n % LimbBits)), n \div LimbBits)

\* floor(x / k) for 0 < k < Base, from the top limb down
RECURSIVE BDivSmallRec(_, _, _, _)
BDivSmallRec(x, k, i, r) ==
    IF i = 0 THEN <<>>
    ELSE LET t == r * Base + x[i]
         IN  BDivSmallRec(x, k, i - 1, t % k) \o <<t \div k>>

BDivSmall(x, k) == BNorm(BDivSmallRec(x, k, Len(x), 0))

\* floor(x / 2^n)
BShr(x, n) ==
    LET w == n \div LimbBits
    IN  IF w >= Len(x) THEN <<>>
        ELSE BDivSmall(SubSeq(x, w + 1, Len(x)), 2^(n % LimbBits))

RECURSIVE IntBitLen(_)
IntBitLen(n) == IF n = 0 THEN 0 ELSE 1 + IntBitLen(n \div 2)

BBitLen(x) == IF x = <<>> THEN 0 ELSE (Len(x) - 1) * LimbBits + IntBitLen(x[Len(x)])

\* bit i of x, bit 0 the lowest
BBit(x, i) == (BLimb(x, i \div LimbBits + 1) \div 2^(i % LimbBits)) % 2

\* x mod 2^n = 0
BLowZero(x, n) ==
    /\ \A i \in 1..(n \div LimbBits) : BLimb(x, i) = 0
    /\ BLimb(x, n \div LimbBits + 1) % 2^(n % LimbBits) = 0

BOdd(x) == x # <<>> /\ x[1] % 2 = 1

\* the quotient digit of t by d: the estimate qd lowered until d * qd <= t
RECURSIVE BFixDigit(_, _, _)
BFixDigit(t, d, qd) ==
    IF BCmp(BMulSmall(d, qd), t) <= 0 THEN qd ELSE BFixDigit(t, d, qd - 1)

\* the quotient digit of t by d, for t < d * Base and the top limb of d at
\* least Base / 2: estimated from the top limbs, at most two too large
BDigit(t, d) ==
    BFixDigit(t, d,
              IF (BLimb(t, Len(d) + 1) * Base + BLimb(t, Len(d))) \div d[Len(d)] > Base - 1
              THEN Base - 1
              ELSE (BLimb(t, Len(d) + 1) * Base + BLimb(t, Len(d))) \div d[Len(d)])

BDivPrepend(rest, qd) == [q |-> rest.q \o <<qd>>, r |-> rest.r]

\* long division of the limbs n[1..i] of n below the running remainder r < d;
\* t is the remainder with the next limb brought down, qd its quotient digit
RECURSIVE BDivRec(_, _, _, _)
RECURSIVE BDivDigit(_, _, _, _, _)
BDivDigit(n, d, i, t, qd) ==
    BDivPrepend(BDivRec(n, d, i - 1, BSub(t, BMulSmall(d, qd))), qd)

BDivStep(n, d, i, t) == BDivDigit(n, d, i, t, BDigit(t, d))

BDivRec(n, d, i, r) ==
    IF i = 0 THEN [q |-> <<>>, r |-> r]
    ELSE BDivStep(n, d, i, BNorm(<<n[i]>> \o r))

BDivResult(qr, s) == [q |-> BNorm(qr.q), r |-> BShr(qr.r, s)]

BDivScaled(n, d, s) == BDivResult(BDivRec(n, d, Len(n), <<>>), s)

\* quotient and remainder of n by d # 0; both are first scaled by the power
\* of two that brings the top limb of d to at least Base / 2
BDivMod(n, d) ==
    BDivScaled(BShl(n, LimbBits - IntBitLen(d[Len(d)])),
               BShl(d, LimbBits - IntBitLen(d[Len(d)])),
               LimbBits - IntBitLen(d[Len(d)]))

RECURSIVE IntLowZeros(_)
IntLowZeros(n) == IF n % 2 = 1 THEN 0 ELSE 1 + IntLowZeros(n \div 2)

RECURSIVE BLowZeroLimbs(_, _)
BLowZeroLimbs(x, i) == IF x[i] # 0 THEN 0 ELSE 1 + BLowZeroLimbs(x, i + 1)

BLowZerosFrom(x, w) == w * LimbBits + IntLowZeros(x[w + 1])

\* the number of trailing zero bits of x # 0
BLowZeros(x) == BLowZerosFrom(x, BLowZeroLimbs(x, 1))

(***************************************************************************)
(* double.  A finite nonzero value is (-1)^neg * man * 2^exp with man odd, *)
(* man < 2^53, exp >= MinExp and man * 2^exp < 2^MaxTop, so that every     *)
(* value has one representation.                                           *)
(***************************************************************************)
MantBits == 53
MinExp == -1074
MaxTop == 1024

Zero(neg) == [cls |-> "fin", neg |-> neg, man |-> <<>>, exp |-> 0]
Inf(neg)  == [cls |-> "inf", neg |-> neg, man |-> <<>>, exp |-> 0]
NaN       == [cls |-> "nan", neg |-> FALSE, man |-> <<>>, exp |-> 0]

IsZero(x) == x.cls = "fin" /\ x.man = <<>>

FinOdd(neg, M, E, z) == [cls |-> "fin", neg |-> neg, man |-> BShr(M, z), exp |-> E + z]

\* (-1)^neg * M * 2^E for M # 0, in the one representation
Fin(neg, M, E) == FinOdd(neg, M, E, BLowZeros(M))

\* the rounded significand q1 at exponent e1: overflow to infinity or a value
RoundDone(neg, e1, q1, inexact) ==
    IF e1 + BBitLen(q1) > MaxTop
    THEN [val |-> Inf(neg), inexact |-> TRUE]
    ELSE [val |-> IF q1 = <<>> THEN Zero(neg) ELSE Fin(neg, q1, e1),
          inexact |-> inexact]

\* q the kept bits, guard the first bit dropped, rest whether any later bit
\* dropped is set: round to nearest, ties to even
RoundUp(neg, e1, q, guard, rest) ==
    RoundDone(neg, e1,
              IF guard /\ (rest \/ BOdd(q)) THEN BAdd(q, <<1>>) ELSE q,
              guard \/ rest)

\* M of n bits at exponent E, to be held at exponent e1: the exponent that
\* leaves 53 bits, or MinExp if that is larger (gradual underflow)
RoundAt(neg, M, E, sticky, n, e1) ==
    IF e1 <= E
    THEN IF E + n > MaxTop
         THEN [val |-> Inf(neg), inexact |-> TRUE]
         ELSE [val |-> Fin(neg, M, E), inexact |-> sticky]
    ELSE RoundUp(neg, e1, BShr(M, e1 - E), BBit(M, e1 - E - 1) = 1,
                 sticky \/ ~BLowZero(M, e1 - E - 1))

RoundBits(neg, M, E, sticky, n) ==
    RoundAt(neg, M, E, sticky, n,
            IF E + n - MantBits > MinExp THEN E + n - MantBits ELSE MinExp)

\* The double nearest to (-1)^neg * (M + f) * 2^E, ties to even, where f = 0
\* when sticky is FALSE and 0 < f < 1 otherwise (then M carries at least two
\* bits beyond the 53 kept).  inexact tells whether rounding changed the value.
RoundToDouble(neg, M, E, sticky) ==
    IF M = <<>> THEN [val |-> Zero(neg), inexact |-> sticky]
    ELSE RoundBits(neg, M, E, sticky, BBitLen(M))

\* static_cast<double>(n) of an integer of small magnitude: always exact
FromInt(n) == RoundToDouble(n < 0, BFromInt(IF n < 0 THEN -n ELSE n), 0, FALSE).val

\* x * y with its inexact flag
FMulR(x, y) ==
    LET neg == x.neg # y.neg
    IN  IF x.cls = "nan" \/ y.cls = "nan" THEN [val |-> NaN, inexact |-> FALSE]
        ELSE IF x.cls = "inf" \/ y.cls = "inf"
        THEN IF IsZero(x) \/ IsZero(y) THEN [val |-> NaN, inexact |-> FALSE]
             ELSE [val |-> Inf(neg), inexact |-> FALSE]
        ELSE RoundToDouble(neg, BMul(x.man, y.man), x.exp + y.exp, FALSE)

FMul(x, y) == FMulR(x, y).val

FDivRound(neg, qr, E) == RoundToDouble(neg, qr.q, E, qr.r # <<>>)

\* x / y for finite nonzero x and y: the quotient of the significands, the
\* dividend shifted by s to leave two bits beyond the 53 kept
FDivFinite(neg, x, y, s) ==
    FDivRound(neg, BDivMod(BShl(x.man, s), y.man), x.exp - y.exp - s)

\* x / y with its inexact flag
FDivR(x, y) ==
    IF x.cls = "nan" \/ y.cls = "nan" THEN [val |-> NaN, inexact |-> FALSE]
    ELSE IF x.cls = "inf"
    THEN IF y.cls = "inf" THEN [val |-> NaN, inexact |-> FALSE]
         ELSE [val |-> Inf(x.neg # y.neg), inexact |-> FALSE]
    ELSE IF y.cls = "inf" THEN [val |-> Zero(x.neg # y.neg), inexact |-> FALSE]
    ELSE IF IsZero(y)
    THEN IF IsZero(x) THEN [val |-> NaN, inexact |-> FALSE]
         ELSE [val |-> Inf(x.neg # y.neg), inexact |-> FALSE]
    ELSE IF IsZero(x) THEN [val |-> Zero(x.neg # y.neg), inexact |-> FALSE]
    ELSE FDivFinite(x.neg # y.neg, x, y,
                    MantBits + 2 + BBitLen(y.man) - BBitLen(x.man))

FDiv(x, y) == FDivR(x, y).val

FNeg(x) == IF x.cls = "nan" THEN x ELSE [x EXCEPT !.neg = ~x.neg]

\* the exponent of the power of two just above |x|, for finite nonzero x
Top(x) == x.exp + BBitLen(x.man)

\* y lies below the rounding position of x: it only breaks ties
FAddFar(x, y, sl) ==
    RoundToDouble(x.neg,
                  IF x.neg = y.neg THEN BShl(x.man, sl)
                  ELSE BSub(BShl(x.man, sl), <<1>>),
                  x.exp - sl, TRUE)

\* X and Y the significands at the common exponent e, c their comparison
FAddSigned(xneg, yneg, X, Y, e, c) ==
    RoundToDouble(IF xneg = yneg \/ c > 0 THEN xneg ELSE IF c < 0 THEN yneg ELSE FALSE,
                  IF xneg = yneg THEN BAdd(X, Y)
                  ELSE IF c >= 0 THEN BSub(X, Y)
                  ELSE BSub(Y, X),
                  e, FALSE)

FAddAligned(xneg, yneg, X, Y, e) == FAddSigned(xneg, yneg, X, Y, e, BCmp(X, Y))

FAddNear(x, y, e) ==
    FAddAligned(x.neg, y.neg, BShl(x.man, x.exp - e), BShl(y.man, y.exp - e), e)

\* x + y for finite nonzero x, y with Top(x) >= Top(y)
FAddOrdered(x, y) ==
    IF Top(x) - Top(y) >= MantBits + 3
    THEN FAddFar(x, y, MantBits + 3 - BBitLen(x.man))
    ELSE FAddNear(x, y, IF x.exp < y.exp THEN x.exp ELSE y.exp)

\* x + y with its inexact flag
FAddR(x, y) ==
    IF x.cls = "nan" \/ y.cls = "nan" THEN [val |-> NaN, inexact |-> FALSE]
    ELSE IF x.cls = "inf"
    THEN IF y.cls = "inf" /\ x.neg # y.neg THEN [val |-> NaN, inexact |-> FALSE]
         ELSE [val |-> x, inexact |-> FALSE]
    ELSE IF y.cls = "inf" THEN [val |-> y, inexact |-> FALSE]
    ELSE IF IsZero(x)
    THEN IF IsZero(y) THEN [val |-> Zero(x.neg /\ y.neg), inexact |-> FALSE]
         ELSE [val |-> y, inexact |-> FALSE]
    ELSE IF IsZero(y) THEN [val |-> x, inexact |-> FALSE]
    ELSE FAddOrdered(IF Top(x) >= Top(y) THEN x ELSE y,
                     IF Top(x) >= Top(y) THEN y ELSE x)

FAdd(x, y) == FAddR(x, y).val

FSub(x, y) == FAddR(x, FNeg(y)).val

\* the built-in == of double: NaN equals nothing, the two zeros are equal
FEq(x, y) ==
    /\ x.cls # "nan"
    /\ y.cls # "nan"
    /\ \/ x = y
       \/ IsZero(x) /\ IsZero(y)

(***************************************************************************)
(* std::ratio<N, D>: num and den are kept in lowest terms, den > 0.        *)
(***************************************************************************)
Abs(n) == IF n < 0 THEN -n ELSE n
Sign(n) == IF n < 0 THEN -1 ELSE 1

RECURSIVE GCD(_, _)
GCD(a, b) == IF b = 0 THEN a ELSE GCD(b, a % b)

Ratio(n, d) ==
    LET g == GCD(Abs(n), Abs(d))
    IN  [num |-> Sign(n) * Sign(d) * (Abs(n) \div g), den |-> Abs(d) \div g]

ratio_multiply(r1, r2) == Ratio(r1.num * r2.num, r1.den * r2.den)
ratio_divide(r1, r2) == Ratio(r1.num * r2.den, r1.den * r2.num)

(***************************************************************************)
(* The unit tags and their scale to the metre.                             *)
(***************************************************************************)
metre      == Ratio(1, 1)
centimetre == Ratio(1, 100)
millimetre == Ratio(1, 1000)
inch       == ratio_multiply(Ratio(254, 100), centimetre)
foot       == ratio_multiply(Ratio(12, 1), inch)

Units == {"metre", "centimetre", "millimetre", "inch", "foot"}

\* Tags a program could also derive from length_unit, which the header does
\* not define: a yard of 9144/10000 m and a kilometre.
OtherTags == {"yard", "kilometre"}

Tags == Units \cup OtherTags

UnitRatio(u) ==
    CASE u = "metre"      -> metre
      [] u = "centimetre" -> centimetre
      [] u = "millimetre" -> millimetre
      [] u = "inch"       -> inch
      [] u = "foot"       -> foot
      [] u = "yard"       -> Ratio(9144, 10000)
      [] u = "kilometre"  -> Ratio(1000, 1)

\* (mutant) the static_assert tests what its message says, that Unit is a
\* length_unit, instead of membership in the list of five
LengthUnitOK_AnyLengthUnit(u) == u \in Tags

\* the static_assert of class Length on its Unit parameter
LengthUnitOK(u) ==
    \/ u = "metre"
    \/ u = "centimetre"
    \/ u = "millimetre"
    \/ u = "inch"
    \/ u = "foot"

\* the unit parameters with which a program using Length compiles
Instantiable == {u \in Tags : LengthUnitOK(u)}

(***************************************************************************)
(* Length<Unit>, convert and the operators.                                *)
(***************************************************************************)
Length(u, val) == [unit |-> u, m_value |-> val]

value(x) == x.m_value

\* (mutant) the ratio taken upside down
convert_Inverted(ToUnit, from) ==
    LET r == ratio_divide(UnitRatio(ToUnit), UnitRatio(from.unit))
    IN  Length(ToUnit, FDiv(FMul(value(from), FromInt(r.num)), FromInt(r.den)))

\* (mutant) the division by the denominator left out
convert_NoDivide(ToUnit, from) ==
    LET r == ratio_divide(UnitRatio(from.unit), UnitRatio(ToUnit))
    IN  Length(ToUnit, FMul(value(from), FromInt(r.num)))

convert(ToUnit, from) ==
    LET r == ratio_divide(UnitRatio(from.unit), UnitRatio(ToUnit))
    IN  Length(ToUnit, FDiv(FMul(value(from), FromInt(r.num)), FromInt(r.den)))

\* (mutant) rhs converted from the unit of lhs instead of into it
operator_eq_general_WrongWay(lhs, rhs) ==
    FEq(value(lhs), value(convert_Inverted(lhs.unit, rhs)))

\* the return statement after the if constexpr of operator==
operator_eq_general(lhs, rhs) == FEq(value(lhs), value(convert(lhs.unit, rhs)))

\* (mutant) the magnitudes compared without conversion
operator_eq_Unconverted(lhs, rhs) == FEq(value(lhs), value(rhs))

operator_eq(lhs, rhs) ==
    IF lhs.unit = rhs.unit THEN FEq(value(lhs), value(rhs))
    ELSE operator_eq_general(lhs, rhs)

\* (mutant) the magnitudes added without conversion
operator_plus_general_Unconverted(lhs, rhs) ==
    Length(lhs.unit, FAdd(value(lhs), value(rhs)))

operator_plus_general(lhs, rhs) ==
    Length(lhs.unit, FAdd(value(lhs), value(convert(lhs.unit, rhs))))

\* (mutant) lhs added to itself
operator_plus_same_Typo(lhs, rhs) == Length(lhs.unit, FAdd(value(lhs), value(lhs)))

operator_plus_same(lhs, rhs) == Length(lhs.unit, FAdd(value(lhs), value(rhs)))

\* overload resolution prefers the more specialized same-unit template
operator_plus(lhs, rhs) ==
    IF lhs.unit = rhs.unit THEN operator_plus_same(lhs, rhs)
    ELSE operator_plus_general(lhs, rhs)

\* (mutant) the operands of the subtraction exchanged
operator_minus_general_Swapped(lhs, rhs) ==
    Length(lhs.unit, FSub(value(convert(lhs.unit, rhs)), value(lhs)))

operator_minus_general(lhs, rhs) ==
    Length(lhs.unit, FSub(value(lhs), value(convert(lhs.unit, rhs))))

operator_minus_same(lhs, rhs) == Length(lhs.unit, FSub(value(lhs), value(rhs)))

operator_minus(lhs, rhs) ==
    IF lhs.unit = rhs.unit THEN operator_minus_same(lhs, rhs)
    ELSE operator_minus_general(lhs, rhs)

\* operator* (double k, Length&& length)
operator_mul_kl(k, length) == Length(length.unit, FMul(k, value(length)))

\* (mutant) the body of operator/ pasted into operator*
operator_mul_lk_Divides(length, k) == Length(length.unit, FDiv(value(length), k))

\* operator* (Length&& length, double k)
operator_mul_lk(length, k) == Length(length.unit, FMul(k, value(length)))

\* operator/ (Length length, double k)
operator_div_lk(length, k) == Length(length.unit, FDiv(value(length), k))

\* (mutant) the magnitudes divided without conversion
operator_div_ll_Unconverted(lhs, rhs) == FDiv(value(lhs), value(rhs))

\* operator/ (Length&& lhs, Length&& rhs)
operator_div_ll(lhs, rhs) == FDiv(value(lhs), value(convert(lhs.unit, rhs)))

(***************************************************************************)
(* The literal operators and the header's compile-time tests.              *)
(***************************************************************************)
_m(v)  == Length("metre", v)
_cm(v) == Length("centimetre", v)
_mm(v) == Length("millimetre", v)
_in(v) == Length("inch", v)
_ft(v) == Length("foot", v)

\* a decimal literal n / d of the source text (d a power of ten), correctly rounded
Dec(n, d) == FDiv(FromInt(n), FromInt(d))

static_assert_167 == operator_eq(_m(FromInt(1)), _cm(FromInt(100)))
static_assert_170 == operator_eq(_in(FromInt(12)), _ft(FromInt(1)))
static_assert_171 == operator_eq(_ft(FromInt(1)), _in(FromInt(12)))
static_assert_172 == operator_eq(_cm(FromInt(250)), _m(Dec(25, 10)))
static_assert_175 == operator_eq(_m(Dec(25, 10)), _cm(FromInt(250)))
static_assert_176 == operator_eq(_ft(FromInt(3)), _in(FromInt(36)))
static_assert_177 == operator_eq(_mm(FromInt(2)), _cm(Dec(2, 10)))
static_assert_178 == operator_eq(_m(FromInt(2)), convert("millimetre", _cm(FromInt(200))))
static_assert_179 == operator_eq(_mm(FromInt(2)), convert("metre", _cm(Dec(2, 10))))
static_assert_180 == operator_eq(_m(FromInt(1)), _in(FDiv(FromInt(1), Dec(254, 10000))))
static_assert_183 ==
    operator_eq(operator_mul_kl(FromInt(4), _m(FromInt(1))),
                operator_mul_lk(_cm(FromInt(50)), FromInt(8)))
static_assert_184 ==
    operator_eq(operator_mul_lk(_mm(FromInt(2)), FromInt(10)),
                operator_mul_kl(Dec(5, 10), _cm(FromInt(4))))
static_assert_185 ==
    operator_eq(operator_mul_lk(_mm(FromInt(2)), FromInt(10)),
                operator_div_lk(_cm(FromInt(4)), FromInt(2)))
static_assert_186 ==
    operator_eq(operator_plus(_mm(FromInt(200)), operator_div_lk(_m(FromInt(3)), FromInt(6))),
                operator_plus(operator_mul_kl(FromInt(2), _cm(FromInt(10))),
                              operator_div_lk(_cm(FromInt(50)), FromInt(1))))
static_assert_187 ==
    operator_eq(operator_div_lk(_m(FromInt(2)), FromInt(2)),
                operator_div_lk(_in(FromInt(1)), Dec(254, 10000)))
static_assert_188 ==
    FEq(value(operator_mul_kl(
                  operator_div_ll(operator_plus(operator_mul_kl(FromInt(2), _m(FromInt(5))),
                                                _m(FromInt(10))),
                                  _cm(FromInt(200))),
                  _m(FromInt(1)))),
        FromInt(10))

(***************************************************************************)
(* The magnitudes the operations are applied to.                           *)
(***************************************************************************)
MaxInt == 7

DBL_MAX      == [cls |-> "fin", neg |-> FALSE,
                 man |-> BSub(BShl(<<1>>, MantBits), <<1>>), exp |-> MaxTop - MantBits]
DBL_TRUE_MIN == [cls |-> "fin", neg |-> FALSE, man |-> <<1>>, exp |-> MinExp]

SmallInts == {FromInt(n) : n \in 0..MaxInt}

\* magnitudes of the header's own tests, and 0.07 (7 cm in metres)
TestMagnitudes ==
    {FromInt(12), FromInt(20), FromInt(50), FromInt(100), FromInt(200),
     FromInt(250), Dec(25, 10), Dec(5, 10), Dec(7, 100)}

EdgeMagnitudes ==
    {FromInt(-1), Zero(TRUE), DBL_MAX, DBL_TRUE_MIN, Inf(FALSE), NaN}

Magnitudes == SmallInts \cup TestMagnitudes \cup EdgeMagnitudes

None == [unit |-> "none"]

(***************************************************************************)
(* State: the last operation, its operands and its result (a Length, a     *)
(* double, or the truth value of a comparison in the field bool).  A       *)
(* behaviour                                                               *)
(* is one expression of a program: a Length is constructed, one operation  *)
(* is applied to it, and the result of a conversion may be converted       *)
(* back.  failure is "compile_time" for a program the compiler rejected,   *)
(* "runtime" for an error raised while running, "none" otherwise.  tests   *)
(* holds the outcome of the header's own compile-time tests.               *)
(***************************************************************************)
VARIABLES op, lhs, rhs, k, result, failure, tests

vars == <<op, lhs, rhs, k, result, failure, tests>>

\* what the compiler finds the header's static_assert tests to be, by line
HeaderTests ==
    [l167 |-> static_assert_167, l170 |-> static_assert_170,
     l171 |-> static_assert_171, l172 |-> static_assert_172,
     l175 |-> static_assert_175, l176 |-> static_assert_176,
     l177 |-> static_assert_177, l178 |-> static_assert_178,
     l179 |-> static_assert_179, l180 |-> static_assert_180,
     l183 |-> static_assert_183, l184 |-> static_assert_184,
     l185 |-> static_assert_185, l186 |-> static_assert_186,
     l187 |-> static_assert_187, l188 |-> static_assert_188]

Init ==
    /\ tests = HeaderTests
    /\ op = "init"
    /\ lhs = None
    /\ rhs = None
    /\ k = None
    /\ result = None
    /\ failure = "none"

\* A translation unit that names Length<u> for a tag the static_assert
\* refuses does not compile: nothing of it ever runs.
Reject ==
    /\ op = "init"
    /\ \E u \in Tags :
        /\ ~LengthUnitOK(u)
        /\ op' = "rejected"
        /\ lhs' = [unit |-> u]
        /\ failure' = "compile_time"
    /\ UNCHANGED <<rhs, k, result, tests>>

\* Length<u>{v}
Construct ==
    /\ op = "init"
    /\ \E u \in Instantiable, v \in Magnitudes :
        /\ op' = "construct"
        /\ k' = v
        /\ result' = Length(u, v)
    /\ UNCHANGED <<lhs, rhs, failure, tests>>

\* the constructed value is the (left) operand of the operation
Constructed == failure = "none" /\ op = "construct"

\* x.value()
Value ==
    /\ Constructed
    /\ op' = "value"
    /\ lhs' = result
    /\ result' = value(result)
    /\ k' = None
    /\ UNCHANGED <<rhs, failure, tests>>

\* convert<From, To>(x)
Convert ==
    /\ Constructed
    /\ \E to \in Instantiable :
        /\ op' = "convert"
        /\ result' = convert(to, result)
    /\ lhs' = result
    /\ k' = None
    /\ UNCHANGED <<rhs, failure, tests>>

\* convert<To, From>(convert<From, To>(x)): the result of a conversion
\* converted back; lhs keeps x, rhs the intermediate value
RoundTrip ==
    /\ failure = "none"
    /\ op = "convert"
    /\ op' = "roundtrip"
    /\ rhs' = result
    /\ result' = convert(lhs.unit, result)
    /\ UNCHANGED <<lhs, k, failure, tests>>

\* x == y
Equality ==
    /\ Constructed
    /\ \E u2 \in Instantiable, b \in Magnitudes :
        /\ op' = "eq"
        /\ rhs' = Length(u2, b)
        /\ result' = [bool |-> operator_eq(result, Length(u2, b))]
    /\ lhs' = result
    /\ k' = None
    /\ UNCHANGED <<failure, tests>>

\* x + y
Add ==
    /\ Constructed
    /\ \E u2 \in Instantiable, b \in Magnitudes :
        /\ op' = "add"
        /\ rhs' = Length(u2, b)
        /\ result' = operator_plus(result, Length(u2, b))
    /\ lhs' = result
    /\ k' = None
    /\ UNCHANGED <<failure, tests>>

\* x - y
Subtract ==
    /\ Constructed
    /\ \E u2 \in Instantiable, b \in Magnitudes :
        /\ op' = "sub"
        /\ rhs' = Length(u2, b)
        /\ result' = operator_minus(result, Length(u2, b))
    /\ lhs' = result
    /\ k' = None
    /\ UNCHANGED <<failure, tests>>

\* c * x
ScaleKL ==
    /\ Constructed
    /\ \E c \in Magnitudes :
        /\ op' = "mul_kl"
        /\ k' = c
        /\ result' = operator_mul_kl(c, result)
    /\ lhs' = result
    /\ UNCHANGED <<rhs, failure, tests>>

\* x * c
ScaleLK ==
    /\ Constructed
    /\ \E c \in Magnitudes :
        /\ op' = "mul_lk"
        /\ k' = c
        /\ result' = operator_mul_lk(result, c)
    /\ lhs' = result
    /\ UNCHANGED <<rhs, failure, tests>>

\* x / c
DivideScalar ==
    /\ Constructed
    /\ \E c \in Magnitudes :
        /\ op' = "div_lk"
        /\ k' = c
        /\ result' = operator_div_lk(result, c)
    /\ lhs' = result
    /\ UNCHANGED <<rhs, failure, tests>>

\* x / y
Divide ==
    /\ Constructed
    /\ \E u2 \in Instantiable, b \in Magnitudes :
        /\ op' = "div_ll"
        /\ rhs' = Length(u2, b)
        /\ result' = operator_div_ll(result, Length(u2, b))
    /\ lhs' = result
    /\ k' = None
    /\ UNCHANGED <<failure, tests>>

Next ==
    \/ Reject
    \/ Construct
    \/ Value
    \/ Convert
    \/ RoundTrip
    \/ Equality
    \/ Add
    \/ Subtract
    \/ ScaleKL
    \/ ScaleLK
    \/ DivideScalar
    \/ Divide

Spec == Init /\ [][Next]_vars

(***************************************************************************)
(* Exact arithmetic on the values doubles stand for, to state what a       *)
(* result is meant to be.                                                  *)
(***************************************************************************)
Finite(x) == x.cls = "fin"

\* finite, nonzero and at least 2^-1022 in magnitude
Normal(x) == Finite(x) /\ x.man # <<>> /\ Top(x) >= MinExp + MantBits

\* |x| * c for a finite double x and a natural number c
Scaled(x, c) == [m |-> BMul(x.man, BFromInt(c)), e |-> x.exp]

\* | P - Q | * 2^s <= Q
WithinRel(P, Q, s) ==
    LET e == IF P.e < Q.e THEN P.e ELSE Q.e
        p == BShl(P.m, P.e - e)
        q == BShl(Q.m, Q.e - e)
        d == IF BCmp(p, q) >= 0 THEN BSub(p, q) ELSE BSub(q, p)
    IN  BCmp(BShl(d, s), q) <= 0

\* P = Q
SameQuantity(P, Q) ==
    \/ P.m = <<>> /\ Q.m = <<>>
    \/ /\ P.m # <<>>
       /\ Q.m # <<>>
       /\ P.e + BBitLen(P.m) = Q.e + BBitLen(Q.m)
       /\ LET e == IF P.e < Q.e THEN P.e ELSE Q.e
          IN  BShl(P.m, P.e - e) = BShl(Q.m, Q.e - e)

\* the scale table of the specification, in metres
SpecScale(u) ==
    CASE u = "metre"      -> [num |-> 1, den |-> 1]
      [] u = "centimetre" -> [num |-> 1, den |-> 100]
      [] u = "millimetre" -> [num |-> 1, den |-> 1000]
      [] u = "inch"       -> [num |-> 254, den |-> 10000]
      [] u = "foot"       -> [num |-> 12 * 254, den |-> 10000]

\* magnitude r in unit to and magnitude m in unit from are the same length
SameLength(r, to, m, from) ==
    /\ r.neg = m.neg
    /\ SameQuantity(Scaled(r, SpecScale(to).num * SpecScale(from).den),
                    Scaled(m, SpecScale(from).num * SpecScale(to).den))

\* ... up to a relative error of 2^-s
NearLength(r, to, m, from, s) ==
    /\ r.neg = m.neg
    /\ WithinRel(Scaled(r, SpecScale(to).num * SpecScale(from).den),
                 Scaled(m, SpecScale(from).num * SpecScale(to).den), s)

\* the two floating-point steps of convert<from.unit, ToUnit>(from)
ConvertSteps(ToUnit, from) ==
    LET r == ratio_divide(UnitRatio(from.unit), UnitRatio(ToUnit))
        p == FMulR(value(from), FromInt(r.num))
    IN  [mul |-> p, div |-> FDivR(p.val, FromInt(r.den))]

\* neither step rounds
ConvertExact(ToUnit, from) ==
    /\ ~ConvertSteps(ToUnit, from).mul.inexact
    /\ ~ConvertSteps(ToUnit, from).div.inexact

\* neither step overflows or falls into the subnormal range
ConvertInRange(ToUnit, from) ==
    /\ Normal(ConvertSteps(ToUnit, from).mul.val)
    /\ Normal(ConvertSteps(ToUnit, from).div.val)

(***************************************************************************)
(* C1.  As claimed: convert<From, To> of a finite magnitude m returns a    *)
(* Length<To> whose magnitude r is m * (From.scale / To.scale), that is    *)
(* r * To.scale = m * From.scale, with the scales of the specification.    *)
(***************************************************************************)
C1_Claimed ==
    (op = "convert" /\ Finite(value(lhs))) =>
        /\ Finite(value(result))
        /\ SameLength(value(result), result.unit, value(lhs), lhs.unit)

(***************************************************************************)
(* C1, amended.  convert<From, To> of a finite magnitude m returns a       *)
(* Length<To> whose magnitude r is m * (From.scale / To.scale) rounded:    *)
(* r * To.scale = m * From.scale exactly when neither the multiplication   *)
(* by the numerator nor the division by the denominator rounds, and        *)
(* within a relative error of 2^-52 when neither overflows or underflows.  *)
(***************************************************************************)
C1_ConvertScales ==
    (op = "convert" /\ Finite(value(lhs))) =>
        /\ result.unit \in Units
        /\ ConvertExact(result.unit, lhs) =>
               SameLength(value(result), result.unit, value(lhs), lhs.unit)
        /\ ConvertInRange(result.unit, lhs) =>
               NearLength(value(result), result.unit, value(lhs), lhs.unit, MantBits - 1)

\* 1 m is converted to 5000/127 in, which no double is
C1_Witness ==
    /\ op = "convert"
    /\ lhs = _m(FromInt(1))
    /\ result = _in(FDiv(FromInt(5000), FromInt(127)))
    /\ ~ConvertExact("inch", lhs)
    /\ ConvertInRange("inch", lhs)

(***************************************************************************)
(* C2.  lhs == rhs is true iff lhs.value() equals the magnitude of rhs     *)
(* converted into the unit of lhs, also when both have the same unit; so   *)
(* 1 m == 100 cm, 12 in == 1 ft, 250 cm == 2.5 m, and not 1 m == 200 cm.   *)
(***************************************************************************)
C2_EqualityConverts ==
    /\ op = "eq" =>
        /\ result.bool = FEq(value(lhs), value(convert(lhs.unit, rhs)))
        /\ (lhs = _m(FromInt(1)) /\ rhs = _cm(FromInt(100))) => result.bool
        /\ (lhs = _in(FromInt(12)) /\ rhs = _ft(FromInt(1))) => result.bool
        /\ (lhs = _cm(FromInt(250)) /\ rhs = _m(Dec(25, 10))) => result.bool
        /\ (lhs = _m(FromInt(1)) /\ rhs = _cm(FromInt(200))) => ~result.bool
    /\ tests.l167 /\ tests.l170 /\ tests.l172 /\ tests.l175 /\ tests.l176
    /\ tests.l177 /\ tests.l178 /\ tests.l179 /\ tests.l180

C2_Witness ==
    /\ op = "eq"
    /\ lhs = _cm(FromInt(250))
    /\ rhs = _m(Dec(25, 10))
    /\ result.bool

(***************************************************************************)
(* C3.  lhs + rhs has the unit of lhs and the magnitude lhs.value() +      *)
(* convert<U2, U1>(rhs).value(); 200 mm + 0.5 m is 700 mm, 20 cm + 50 cm   *)
(* is 70 cm, and the two sums are equal.                                   *)
(***************************************************************************)
C3_AddInLeftUnit ==
    /\ op = "add" =>
        /\ result.unit = lhs.unit
        /\ value(result) = FAdd(value(lhs), value(convert(lhs.unit, rhs)))
        /\ (lhs = _mm(FromInt(200)) /\ rhs = _m(Dec(5, 10))) =>
               result = _mm(FromInt(700))
        /\ (lhs = _cm(FromInt(20)) /\ rhs = _cm(FromInt(50))) =>
               result = _cm(FromInt(70))
    /\ tests.l186

C3_Witness ==
    /\ op = "add"
    /\ lhs = _mm(FromInt(200))
    /\ rhs = _m(Dec(5, 10))
    /\ result = _mm(FromInt(700))

(***************************************************************************)
(* C4.  lhs - rhs has the unit of lhs and the magnitude lhs.value() -      *)
(* convert<U2, U1>(rhs).value().                                           *)
(***************************************************************************)
C4_SubtractInLeftUnit ==
    op = "sub" =>
        /\ result.unit = lhs.unit
        /\ value(result) = FSub(value(lhs), value(convert(lhs.unit, rhs)))

\* 1 m - 50 cm = 0.5 m
C4_Witness ==
    /\ op = "sub"
    /\ lhs = _m(FromInt(1))
    /\ rhs = _cm(FromInt(50))
    /\ result = _m(Dec(5, 10))

(***************************************************************************)
(* C5.  lhs / rhs is a plain double, with no unit, equal to lhs.value() /  *)
(* convert<U2, U1>(rhs).value(); 2 mm / 1 cm is 0.2 and                    *)
(* (2 * 5 m + 10 m) / 200 cm is 10.                                        *)
(***************************************************************************)
C5_DivideIsRatio ==
    /\ op = "div_ll" =>
        /\ DOMAIN result = DOMAIN NaN
        /\ result = FDiv(value(lhs), value(convert(lhs.unit, rhs)))
        /\ (lhs = _mm(FromInt(2)) /\ rhs = _cm(FromInt(1))) => result = Dec(2, 10)
        /\ (lhs = _m(FromInt(20)) /\ rhs = _cm(FromInt(200))) => result = FromInt(10)
    /\ tests.l188

C5_Witness ==
    /\ op = "div_ll"
    /\ lhs = _mm(FromInt(2))
    /\ rhs = _cm(FromInt(1))
    /\ result = Dec(2, 10)

(***************************************************************************)
(* C6.  The only failure is the rejection, before anything runs, of a      *)
(* unit parameter that is not one of the five registered tags: no          *)
(* operation ends in a runtime error, every operation that runs yields a   *)
(* result, and every Length that exists carries a registered tag.          *)
(***************************************************************************)
IsLength(x) == "m_value" \in DOMAIN x

C6_OnlyCompileTimeRejection ==
    /\ failure \in {"none", "compile_time"}
    /\ failure = "compile_time" <=> op = "rejected"
    /\ op = "rejected" =>
        /\ lhs.unit \notin {"metre", "centimetre", "millimetre", "inch", "foot"}
        /\ result = None
    /\ op \notin {"init", "rejected"} => result # None
    /\ \A x \in {lhs, rhs, result} :
        IsLength(x) =>
            x.unit \in {"metre", "centimetre", "millimetre", "inch", "foot"}

\* a program naming Length<yard> is rejected at compile time
C6_Witness ==
    /\ op = "rejected"
    /\ failure = "compile_time"
    /\ lhs.unit = "yard"
    /\ result = None

C8_SameUnitFastPath ==
    /\ (op = "eq" /\ lhs.unit = rhs.unit) => result.bool = operator_eq_general(lhs, rhs)
    /\ (op = "add" /\ lhs.unit = rhs.unit) => result = operator_plus_general(lhs, rhs)
    /\ (op = "sub" /\ lhs.unit = rhs.unit) => result = operator_minus_general(lhs, rhs)
    /\ (op = "convert" /\ lhs.unit = result.unit) => result = lhs

\* 7 cm - 0.07 cm in the same unit
C8_Witness ==
    /\ op = "sub"
    /\ lhs = _cm(FromInt(7))
    /\ rhs = _cm(Dec(7, 100))
    /\ result = operator_minus_general(lhs, rhs)
    /\ Normal(value(result))

(***************************************************************************)
(* C9.  As claimed: lhs == rhs holds iff rhs == lhs holds.                 *)
(***************************************************************************)
C9_Claimed ==
    op = "eq" => (result.bool <=> operator_eq(rhs, lhs))

(***************************************************************************)
(* C9, amended.  lhs == rhs holds iff rhs == lhs holds whenever neither    *)
(* conversion, of rhs into the unit of lhs and of lhs into the unit of     *)
(* rhs, rounds; so 12 in == 1 ft and 1 ft == 12 in.                        *)
(***************************************************************************)
C9_SymmetricWhenExact ==
    /\ (op = "eq" /\ ConvertExact(lhs.unit, rhs) /\ ConvertExact(rhs.unit, lhs)) =>
           (result.bool <=> operator_eq(rhs, lhs))
    /\ (op = "eq" /\ lhs = _in(FromInt(12)) /\ rhs = _ft(FromInt(1))) => result.bool
    /\ (op = "eq" /\ lhs = _ft(FromInt(1)) /\ rhs = _in(FromInt(12))) => result.bool
    /\ tests.l170 /\ tests.l171

C9_Witness ==
    /\ op = "eq"
    /\ lhs = _ft(FromInt(1))
    /\ rhs = _in(FromInt(12))
    /\ result.bool
    /\ ConvertExact(lhs.unit, rhs)
    /\ ConvertExact(rhs.unit, lhs)

(***************************************************************************)
(* C10.  k * x and x * k both are a Length of the unit of x with the       *)
(* magnitude k * x.value(): the two agree.                                 *)
(***************************************************************************)
C10_ScaleCommutes ==
    /\ op \in {"mul_kl", "mul_lk"} =>
        /\ result.unit = lhs.unit
        /\ value(result) = FMul(k, value(lhs))
    /\ op = "mul_kl" => result = operator_mul_lk(lhs, k)
    /\ op = "mul_lk" => result = operator_mul_kl(k, lhs)
    /\ tests.l183 /\ tests.l184

\* 0.07 * 7 cm
C10_Witness ==
    /\ op = "mul_kl"
    /\ lhs = _cm(FromInt(7))
    /\ k = Dec(7, 100)
    /\ result = operator_mul_lk(lhs, k)
    /\ Normal(value(result))

====
